---- MODULE Spec2Model ----
(***************************************************************************)
(* Model of src/Circuit.py: the generalized Deutsch-Jozsa driver.          *)
(*                                                                         *)
(*   build_oracle_from_function(f, n)   lines 14-48                        *)
(*   deutsch_jozsa_circuit(oracle)      lines 51-95                        *)
(*   run_deutsch_jozsa(f, n, shots)     lines 98-127                       *)
(*                                                                         *)
(* The gates the code issues (x, h, mcx, measure) act on a dense state     *)
(* vector over n+1 qubits, qubit q being bit q of the basis index.  All    *)
(* amplitudes these gates produce are real and of the form a / sqrt(2)^k   *)
(* with a an integer, so a state is kept exactly as the integer vector     *)
(* amp together with the exponent hexp: the amplitude of basis state i is  *)
(* amp[i] / sqrt(2)^hexp and its probability amp[i]^2 / 2^hexp.            *)
(***************************************************************************)
EXTENDS Integers, Sequences, FiniteSets, TLC

\* Largest number of input qubits explored.
MaxN == 2
\* Largest shot count explored.
MaxShots == 2
\* Longest free gate sequence explored (SpecGates).
MaxGates == 4

VARIABLES
    n,        \* argument n of run_deutsch_jozsa
    shots,    \* argument shots of run_deutsch_jozsa
    pc,       \* position in run_deutsch_jozsa and its callees
    x,        \* loop variable of build_oracle_from_function (line 32)
    fv,       \* graph of f as evaluated so far: x -> f(x)
    evald,    \* the calls of f so far: the argument, and whether it raised
    oracle,   \* gate list of the circuit qc built at lines 29-48
    circuit,  \* gate list of the circuit qc built at lines 76-93
    amp,      \* integer amplitude vector of the simulated state
    hexp,     \* amplitudes are amp[i] / sqrt(2)^hexp
    ip,       \* index of the next instruction the backend applies
    drawn,    \* shots sampled so far
    counts,   \* result.get_counts(): bitstring -> count
    err       \* the exception that ended the call, "" when none

vars == <<n, shots, pc, x, fv, evald, oracle, circuit, amp, hexp, ip, drawn, counts, err>>

----------------------------------------------------------------------------
(* Integer helpers *)

\* 2 ** k for k >= 0
Pow2(k) == 2 ^ k

\* (i >> q) & 1
Bit(i, q) == (i \div Pow2(q)) % 2

FlipBit(i, q) == IF Bit(i, q) = 0 THEN i + Pow2(q) ELSE i - Pow2(q)

\* list(range(k))
Range(k) == [j \in 1..k |-> j - 1]

SeqElems(s) == {s[j] : j \in DOMAIN s}

----------------------------------------------------------------------------
(* Gates *)

XGate(q) == [op |-> "x", q |-> q, ctrl |-> <<>>]
HGate(q) == [op |-> "h", q |-> q, ctrl |-> <<>>]
MCXGate(ctrl, t) == [op |-> "mcx", q |-> t, ctrl |-> ctrl]
MeasureGate(q, c) == [op |-> "measure", q |-> q, ctrl |-> <<c>>]

\* Pauli-X and multi-controlled X permute the basis states: the index the
\* amplitude of basis state i comes from.
XIdx(i, q) == FlipBit(i, q)
MCXIdx(i, ctrl, t) ==
    IF \A c \in SeqElems(ctrl) : Bit(i, c) = 1 THEN FlipBit(i, t) ELSE i

ApplyX(a, q) == [i \in DOMAIN a |-> a[XIdx(i, q)]]
ApplyMCX(a, ctrl, t) == [i \in DOMAIN a |-> a[MCXIdx(i, ctrl, t)]]

\* Hadamard, numerators only: (a0, a1) -> (a0 + a1, a0 - a1); the factor
\* 1/sqrt(2) is the increment of the exponent, HScale.
ApplyH(a, q) ==
    [i \in DOMAIN a |->
        IF Bit(i, q) = 0 THEN a[i] + a[i + Pow2(q)]
                         ELSE a[i - Pow2(q)] - a[i]]

\* Faulty variant of HScale: the factor 1/sqrt(2) dropped.
HScaleNone(g) == 0
HScale(g) == IF g.op = "h" THEN 1 ELSE 0

ApplyGate(a, g) ==
    CASE g.op = "x"   -> ApplyX(a, g.q)
      [] g.op = "h"   -> ApplyH(a, g.q)
      [] g.op = "mcx" -> ApplyMCX(a, g.ctrl, g.q)
      [] OTHER        -> a

\* |0...0> on nq qubits
ZeroState(nq) == [i \in 0..(Pow2(nq) - 1) |-> IF i = 0 THEN 1 ELSE 0]

RECURSIVE SumSq(_, _)
SumSq(a, S) ==
    IF S = {} THEN 0
    ELSE LET i == CHOOSE j \in S : TRUE
         IN a[i] * a[i] + SumSq(a, S \ {i})

----------------------------------------------------------------------------
(* Circuits: QuantumCircuit(num_qubits, num_clbits) with its instruction list *)

QuantumCircuit(nq, nc) == [num_qubits |-> nq, num_clbits |-> nc, data |-> <<>>]

AppendGates(qc, gs) == [qc EXCEPT !.data = @ \o gs]

\* No circuit object exists yet.
NoCircuit == [num_qubits |-> 0 - 1, num_clbits |-> 0 - 1, data |-> <<>>]

\* Values the predicate f may return in the full runs, and in the runs of
\* build_oracle_from_function alone.
FBits == {0, 1}
FVals == {0, 1, 2, 3}

\* Faulty variant of IsOdd: the test inverted.
IsOddInverted(v) == v % 2 = 0
\* f(x) % 2 == 1 (line 33)
IsOdd(v) == v % 2 = 1

\* Lines 36-38 and 44-46: qc.x(i) for every i in range(n) with bit i of x zero.
RECURSIVE EncodeGates(_, _, _)
EncodeGates(xv, i, nn) ==
    IF i >= nn THEN <<>>
    ELSE (IF Bit(xv, i) = 0 THEN <<XGate(i)>> ELSE <<>>) \o EncodeGates(xv, i + 1, nn)

\* Faulty variant of TermGates: the encoding is not undone.
TermGatesNoUncompute(xv, nn) ==
    EncodeGates(xv, 0, nn) \o <<MCXGate(Range(nn), nn)>>
\* Lines 34-46: the gates appended for one x with f(x) odd.
TermGates(xv, nn) ==
    EncodeGates(xv, 0, nn) \o <<MCXGate(Range(nn), nn)>> \o EncodeGates(xv, 0, nn)

\* qc.mcx(list(range(n)), n) with an empty control list raises (line 41).
MCXRejects(ctrl) == Len(ctrl) = 0

\* Faulty variants of DJCircuit: the second Hadamard layer reaching the
\* ancilla too, the second Hadamard layer missing, the ancilla left in |0>.
DJCircuitHAll(orc) ==
    LET n_plus_1 == orc.num_qubits
        nn == n_plus_1 - 1
    IN  [num_qubits |-> n_plus_1, num_clbits |-> nn,
         data |-> <<XGate(nn)>>
                  \o [q \in 1..n_plus_1 |-> HGate(q - 1)]
                  \o orc.data
                  \o [q \in 1..n_plus_1 |-> HGate(q - 1)]
                  \o [q \in 1..nn |-> MeasureGate(q - 1, q - 1)]]
DJCircuitNoSecondH(orc) ==
    LET n_plus_1 == orc.num_qubits
        nn == n_plus_1 - 1
    IN  [num_qubits |-> n_plus_1, num_clbits |-> nn,
         data |-> <<XGate(nn)>>
                  \o [q \in 1..n_plus_1 |-> HGate(q - 1)]
                  \o orc.data
                  \o [q \in 1..nn |-> MeasureGate(q - 1, q - 1)]]
DJCircuitNoAncillaX(orc) ==
    LET n_plus_1 == orc.num_qubits
        nn == n_plus_1 - 1
    IN  [num_qubits |-> n_plus_1, num_clbits |-> nn,
         data |-> [q \in 1..n_plus_1 |-> HGate(q - 1)]
                  \o orc.data
                  \o [q \in 1..nn |-> HGate(q - 1)]
                  \o [q \in 1..nn |-> MeasureGate(q - 1, q - 1)]]
\* Lines 73-93: the instruction list of the Deutsch-Jozsa circuit.
DJCircuit(orc) ==
    LET n_plus_1 == orc.num_qubits
        nn == n_plus_1 - 1
    IN  [num_qubits |-> n_plus_1, num_clbits |-> nn,
         data |-> <<XGate(nn)>>
                  \o [q \in 1..n_plus_1 |-> HGate(q - 1)]
                  \o orc.data
                  \o [q \in 1..nn |-> HGate(q - 1)]
                  \o [q \in 1..nn |-> MeasureGate(q - 1, q - 1)]]

----------------------------------------------------------------------------
(* Measurement *)

\* Numerator of the marginal probability of input-register value b on a
\* state of nn input qubits and the ancilla, qubit nn: both ancilla values.
MargNum(a, b, nn) == a[b] * a[b] + a[b + Pow2(nn)] * a[b + Pow2(nn)]

\* The key of get_counts() for register value b: classical bit nc-1 first.
BitString(b, nc) == [k \in 1..nc |-> IF Bit(b, nc - k) = 1 THEN "1" ELSE "0"]

\* Faulty variant of AddCount: a repeated outcome is not counted again.
AddCountOverwrite(c, key) ==
    IF key \in DOMAIN c THEN c ELSE c @@ (key :> 1)
\* counts[key] += 1, a key appearing with its first outcome.
AddCount(c, key) ==
    IF key \in DOMAIN c THEN [c EXCEPT ![key] = @ + 1] ELSE c @@ (key :> 1)

RECURSIVE SumCounts(_, _)
SumCounts(c, K) ==
    IF K = {} THEN 0
    ELSE LET k == CHOOSE j \in K : TRUE
         IN c[k] + SumCounts(c, K \ {k})

NoCounts == [k \in {} |-> 0]

----------------------------------------------------------------------------
(* run_deutsch_jozsa(f, n, shots) *)

Init ==
    /\ n \in (0 - 2)..MaxN
    /\ shots \in (0 - 1)..MaxShots
    /\ pc = "build_init"
    /\ x = 0
    /\ fv = <<>>
    /\ evald = <<>>
    /\ oracle = NoCircuit
    /\ circuit = NoCircuit
    /\ amp = <<>>
    /\ hexp = 0
    /\ ip = 0
    /\ drawn = 0
    /\ counts = NoCounts
    /\ err = ""

\* Line 118 entering build_oracle_from_function; line 29 QuantumCircuit(n + 1)
\* raises for a negative size, line 32 range(2 ** n) raises for n = -1
\* (2 ** -1 is a float).
BuildInit ==
    /\ pc = "build_init"
    /\ IF n + 1 < 0
       THEN /\ pc' = "error" /\ err' = "CircuitError"
            /\ UNCHANGED oracle
       ELSE IF n < 0
       THEN /\ pc' = "error" /\ err' = "TypeError"
            /\ oracle' = QuantumCircuit(n + 1, 0)
       ELSE /\ pc' = "build_loop" /\ UNCHANGED err
            /\ oracle' = QuantumCircuit(n + 1, 0)
    /\ x' = 0
    /\ UNCHANGED <<n, shots, fv, evald, circuit, amp, hexp, ip, drawn, counts>>

\* One iteration of the loop of line 32 in which f(x) returns v in V.
BuildEval(V) ==
    /\ pc = "build_loop"
    /\ x < Pow2(n)
    /\ \E v \in V :
        /\ fv' = Append(fv, v)
        /\ evald' = Append(evald, [arg |-> x, raised |-> FALSE])
        /\ IF IsOdd(v)
           THEN IF MCXRejects(Range(n))
                THEN /\ pc' = "error" /\ err' = "CircuitError"
                     /\ oracle' = AppendGates(oracle, EncodeGates(x, 0, n))
                     /\ x' = x
                ELSE /\ oracle' = AppendGates(oracle, TermGates(x, n))
                     /\ x' = x + 1
                     /\ UNCHANGED <<pc, err>>
           ELSE /\ x' = x + 1
                /\ UNCHANGED <<pc, err, oracle>>
    /\ UNCHANGED <<n, shots, circuit, amp, hexp, ip, drawn, counts>>

\* Faulty variant of BuildEvalRaises: the failing x is skipped silently.
BuildEvalRaisesSkip ==
    /\ pc = "build_loop"
    /\ x < Pow2(n)
    /\ evald' = Append(evald, [arg |-> x, raised |-> TRUE])
    /\ fv' = Append(fv, 0)
    /\ x' = x + 1
    /\ UNCHANGED <<n, shots, pc, err, oracle, circuit, amp, hexp, ip, drawn, counts>>
\* One iteration of the loop of line 32 in which f(x) raises: the exception
\* leaves build_oracle_from_function and run_deutsch_jozsa.
BuildEvalRaises ==
    /\ pc = "build_loop"
    /\ x < Pow2(n)
    /\ evald' = Append(evald, [arg |-> x, raised |-> TRUE])
    /\ pc' = "error"
    /\ err' = "PredicateError"
    /\ UNCHANGED <<n, shots, x, fv, oracle, circuit, amp, hexp, ip, drawn, counts>>

\* Line 48: return qc.
BuildReturn ==
    /\ pc = "build_loop"
    /\ x = Pow2(n)
    /\ pc' = "assemble"
    /\ UNCHANGED <<n, shots, x, fv, evald, oracle, circuit, amp, hexp, ip, drawn, counts, err>>

\* Line 119: deutsch_jozsa_circuit(oracle).
Assemble ==
    /\ pc = "assemble"
    /\ circuit' = DJCircuit(oracle)
    /\ pc' = "execute"
    /\ UNCHANGED <<n, shots, x, fv, evald, oracle, amp, hexp, ip, drawn, counts, err>>

\* Lines 122-123: execute(dj_circuit, backend, shots).  What the backend does
\* with shots <= 0 depends on the library version: it raises, or it runs and
\* returns no outcomes.
ExecuteStart ==
    /\ pc = "execute"
    /\ IF shots <= 0
       THEN /\ \/ pc' = "error" /\ err' = "BackendError"
               \/ pc' = "done" /\ UNCHANGED err
            /\ UNCHANGED <<amp, hexp, ip>>
       ELSE /\ pc' = "simulate" /\ UNCHANGED err
            /\ amp' = ZeroState(circuit.num_qubits)
            /\ hexp' = 0
            /\ ip' = 1
    /\ UNCHANGED <<n, shots, x, fv, evald, oracle, circuit, drawn, counts>>

\* The backend applies the next gate of the circuit to the state vector.
ApplyNext ==
    /\ pc = "simulate"
    /\ ip <= Len(circuit.data)
    /\ circuit.data[ip].op # "measure"
    /\ amp' = ApplyGate(amp, circuit.data[ip])
    /\ hexp' = hexp + HScale(circuit.data[ip])
    /\ ip' = ip + 1
    /\ UNCHANGED <<n, shots, pc, x, fv, evald, oracle, circuit, drawn, counts, err>>

\* The gates are applied; the measured register is sampled next.  Lines
\* 124-125: get_counts() raises for a circuit without classical bits.
Measure ==
    /\ pc = "simulate"
    /\ \/ ip > Len(circuit.data)
       \/ /\ ip <= Len(circuit.data)
          /\ circuit.data[ip].op = "measure"
    /\ IF circuit.num_clbits = 0
       THEN pc' = "error" /\ err' = "NoCounts"
       ELSE pc' = "sample" /\ UNCHANGED err
    /\ UNCHANGED <<n, shots, x, fv, evald, oracle, circuit, amp, hexp, ip, drawn, counts>>

\* One shot: an input-register value of non-zero probability is drawn.
SampleShot ==
    /\ pc = "sample"
    /\ drawn < shots
    /\ \E b \in 0..(Pow2(circuit.num_clbits) - 1) :
        /\ MargNum(amp, b, circuit.num_clbits) > 0
        /\ counts' = AddCount(counts, BitString(b, circuit.num_clbits))
    /\ drawn' = drawn + 1
    /\ UNCHANGED <<n, shots, pc, x, fv, evald, oracle, circuit, amp, hexp, ip, err>>

\* Line 127: return counts.
Return ==
    /\ pc = "sample"
    /\ drawn = shots
    /\ pc' = "done"
    /\ UNCHANGED <<n, shots, x, fv, evald, oracle, circuit, amp, hexp, ip, drawn, counts, err>>

BuildEvalBit == BuildEval(FBits)
BuildEvalVal == BuildEval(FVals)

Next ==
    \/ BuildInit
    \/ BuildEvalBit
    \/ BuildEvalRaises
    \/ BuildReturn
    \/ Assemble
    \/ ExecuteStart
    \/ ApplyNext
    \/ Measure
    \/ SampleShot
    \/ Return

Spec == Init /\ [][Next]_vars

\* build_oracle_from_function alone, f returning any value of FVals.
NextBuild ==
    \/ BuildInit
    \/ BuildEvalVal
    \/ BuildEvalRaises
    \/ BuildReturn

\* The shot count plays no part in build_oracle_from_function.
InitBuild == Init /\ shots = 1

SpecBuild == InitBuild /\ [][NextBuild]_vars

----------------------------------------------------------------------------
(* Free gate sequences: any Hadamard, Pauli-X or multi-controlled-X gate     *)
(* applied to a state that starts as |0...0> on n + 1 qubits.               *)

RECURSIVE SortedSeq(_)
SortedSeq(S) ==
    IF S = {} THEN <<>>
    ELSE LET m == CHOOSE j \in S : \A k \in S : j <= k
         IN <<m>> \o SortedSeq(S \ {m})

GateSet(nq) ==
    {XGate(q) : q \in 0..(nq - 1)}
    \cup {HGate(q) : q \in 0..(nq - 1)}
    \cup UNION {{MCXGate(SortedSeq(C), t) : C \in (SUBSET ((0..(nq - 1)) \ {t})) \ {{}}}
                : t \in 0..(nq - 1)}

InitGates ==
    /\ n \in 1..MaxN
    /\ shots = 1
    /\ pc = "gates"
    /\ x = 0
    /\ fv = <<>>
    /\ evald = <<>>
    /\ oracle = NoCircuit
    /\ circuit = NoCircuit
    /\ amp = ZeroState(n + 1)
    /\ hexp = 0
    /\ ip = 0
    /\ drawn = 0
    /\ counts = NoCounts
    /\ err = ""

ApplyAnyGate ==
    /\ pc = "gates"
    /\ ip < MaxGates
    /\ \E g \in GateSet(n + 1) :
        /\ amp' = ApplyGate(amp, g)
        /\ hexp' = hexp + HScale(g)
    /\ ip' = ip + 1
    /\ UNCHANGED <<n, shots, pc, x, fv, evald, oracle, circuit, drawn, counts, err>>

NextGates == Next \/ ApplyAnyGate

\* Every run of run_deutsch_jozsa, and every free gate sequence.
SpecGates == (Init \/ InitGates) /\ [][NextGates]_vars

----------------------------------------------------------------------------
(* Properties *)

\* A vector on nq qubits whose amplitude names the basis state it sits on:
\* gates that only move amplitudes (x, mcx) act on it as they act on every
\* basis state at once.
Labelled(nq) == [j \in 0..(Pow2(nq) - 1) |-> j + 1]

\* The state after gates gs[k], gs[k+1], ... applied in order to a.
RECURSIVE RunGates(_, _, _)
RunGates(gs, k, a) ==
    IF k > Len(gs) THEN a ELSE RunGates(gs, k + 1, ApplyGate(a, gs[k]))

\* f has been evaluated on all of [0, 2^n) and build_oracle_from_function
\* has returned.
OracleBuilt == pc \notin {"build_init", "build_loop", "error", "gates"}

FConstant == \A j \in DOMAIN fv : fv[j] = fv[1]
FBalanced == 2 * Cardinality({j \in DOMAIN fv : fv[j] % 2 = 1}) = Len(fv)

ZeroKey == [k \in 1..n |-> "0"]

\* C1: for n >= 1 the gate sequence returned by build_oracle_from_function
\* maps every basis state |x>|y> to |x>|y XOR (f(x) mod 2)>: the input bits
\* are unchanged and the ancilla, qubit n, flips exactly when f(x) is odd.
C1_OracleComputesXor ==
    (pc = "assemble" /\ n >= 1) =>
        /\ \A k \in DOMAIN oracle.data : oracle.data[k].op \in {"x", "mcx"}
        /\ LET out == RunGates(oracle.data, 1, Labelled(n + 1))
           IN  \A xin \in 0..(Pow2(n) - 1) : \A y \in 0..1 :
                  \* the amplitude of |xin>|y> now sits on |xin>|y XOR f(xin)>
                  out[xin + Pow2(n) * ((y + (fv[xin + 1] % 2)) % 2)]
                    = Labelled(n + 1)[xin + Pow2(n) * y]

C1_Witness ==
    /\ pc = "assemble"
    /\ n = 2
    /\ fv = <<3, 2, 1, 0>>
    /\ Len(oracle.data) > 2

\* C2: for n >= 1 and f constant (all 0 or all 1) the all-zero input bitstring
\* has marginal probability 1 after the full pipeline, and every shot counted
\* is the all-zero bitstring.
C2_ConstantGivesAllZero ==
    (pc \in {"sample", "done"} /\ n >= 1 /\ shots > 0 /\ FConstant) =>
        /\ MargNum(amp, 0, n) = Pow2(hexp)
        /\ DOMAIN counts \subseteq {ZeroKey}
        /\ pc = "done" => (DOMAIN counts = {ZeroKey} /\ counts[ZeroKey] = shots)

C2_Witness ==
    /\ pc = "done"
    /\ n = 2
    /\ shots = 2
    /\ fv = <<1, 1, 1, 1>>
    /\ counts[ZeroKey] = 2

\* C3: for n >= 1 and f balanced (exactly half of the inputs map to 1) the
\* all-zero input bitstring has marginal probability 0 after the full
\* pipeline and never appears in the counts.
C3_BalancedNeverAllZero ==
    (pc \in {"sample", "done"} /\ n >= 1 /\ shots > 0 /\ FBalanced) =>
        /\ MargNum(amp, 0, n) = 0
        /\ ZeroKey \notin DOMAIN counts
        /\ pc = "done" => SumCounts(counts, DOMAIN counts) = shots

C3_Witness ==
    /\ pc = "done"
    /\ n = 2
    /\ shots = 2
    /\ fv = <<0, 1, 1, 0>>
    /\ DOMAIN counts # {}

\* C4: for shots > 0 the counts run_deutsch_jozsa returns have bitstrings of
\* length n as keys and non-negative integers as values, which sum to shots.
C4_CountsSumToShots ==
    (pc = "done" /\ shots > 0) =>
        /\ \A key \in DOMAIN counts :
              /\ Len(key) = n
              /\ \A k \in 1..n : key[k] \in {"0", "1"}
              /\ counts[key] \in Nat
        /\ SumCounts(counts, DOMAIN counts) = shots

C4_Witness ==
    /\ pc = "done"
    /\ shots = 2
    /\ n = 2
    /\ \E key \in DOMAIN counts : counts[key] = 2

\* C5: starting from |0...0>, after every gate application of any sequence of
\* Hadamard, Pauli-X and multi-controlled-X gates the squared magnitudes of
\* all amplitudes sum to 1: sum amp[i]^2 / 2^hexp = 1.
C5_NormIsOne ==
    (pc \in {"simulate", "sample", "done", "gates"} /\ DOMAIN amp # {}) =>
        SumSq(amp, DOMAIN amp) = Pow2(hexp)

C5_Witness ==
    /\ pc = "simulate"
    /\ n = 2
    /\ ip > 1
    /\ ip <= Len(circuit.data)
    /\ circuit.data[ip - 1].op = "mcx"
    /\ circuit.data[ip].op = "x"
    /\ hexp = 3

\* C6: build_oracle_from_function fails for every n < 1 and returns no oracle.
C6_InvalidWidthRejected ==
    n < 1 => ~OracleBuilt

\* C7: run_deutsch_jozsa with shots <= 0 is rejected before any work: f is
\* never evaluated, no oracle or circuit is built, and no counts are returned
\* (stated for the valid widths n >= 1).
C7_InvalidShotsRejectedFirst ==
    (shots <= 0 /\ n >= 1) =>
        /\ evald = <<>>
        /\ ~OracleBuilt
        /\ circuit = NoCircuit
        /\ pc # "done"

\* C8: when f raises at some x, the failure leaves build_oracle_from_function
\* at that x: f was called on 0..x in order and on nothing later, the call
\* ended in the error, no oracle was returned and no counts are returned.
C8_PredicateFailurePropagates ==
    (\E k \in DOMAIN evald : evald[k].raised) =>
        /\ pc = "error"
        /\ err = "PredicateError"
        /\ Len(evald) = x + 1
        /\ \A k \in DOMAIN evald : evald[k].arg = k - 1 /\ (evald[k].raised <=> k = x + 1)
        /\ ~OracleBuilt
        /\ circuit = NoCircuit
        /\ counts = NoCounts

C8_Witness ==
    /\ pc = "error"
    /\ n = 2
    /\ x = 2
    /\ Len(evald) = 3
    /\ evald[3].raised
    /\ Len(oracle.data) > 0

\* C9: for n >= 1 and f(x) = 0 for all x the returned oracle has n + 1 qubits
\* and an empty gate sequence.
C9_ConstantZeroOracleEmpty ==
    (pc = "assemble" /\ n >= 1 /\ \A j \in DOMAIN fv : fv[j] = 0) =>
        /\ oracle.num_qubits = n + 1
        /\ oracle.data = <<>>

C9_Witness ==
    /\ pc = "assemble"
    /\ n = 2
    /\ fv = <<0, 0, 0, 0>>

\* C10: deutsch_jozsa_circuit issues, in this order and nothing else: one X on
\* qubit n, one H on each of qubits 0..n, every oracle gate once in the
\* oracle's order, one H on each of qubits 0..n-1, the measurement of qubits
\* 0..n-1; after the oracle the ancilla gets no gate and is never measured.
C10_PipelineOrder ==
    (pc \in {"execute", "simulate", "sample", "done"}) =>
        LET nq == oracle.num_qubits
            nn == nq - 1
            L  == Len(oracle.data)
            d  == circuit.data
        IN  /\ Len(d) = 1 + nq + L + nn + nn
            /\ d[1] = XGate(nn)
            /\ \A q \in 0..nn : d[2 + q] = HGate(q)
            /\ \A k \in 1..L : d[1 + nq + k] = oracle.data[k]
            /\ \A q \in 0..(nn - 1) : d[2 + nq + L + q] = HGate(q)
            /\ \A q \in 0..(nn - 1) : d[2 + nq + L + nn + q] = MeasureGate(q, q)
            /\ \A k \in (2 + nq + L)..Len(d) : d[k].q # nn

C10_Witness ==
    /\ pc = "execute"
    /\ n = 2
    /\ Len(oracle.data) > 0
    /\ Len(circuit.data) > 8

====
